---- MODULE Spec2Model ----
(***************************************************************************)
(* License issuance, validation, revocation and extension of the          *)
(* churnvision-admin control plane, with the tenant directory the          *)
(* licenses are bound to and the audit trail they write.                   *)
(*                                                                         *)
(* Time is counted in clock ticks.  datetime.utcnow() has a finer          *)
(* resolution than the whole seconds a token carries, so one second is     *)
(* SubSec ticks and one day is DaySecs seconds.                            *)
(***************************************************************************)
EXTENDS Integers, Sequences, FiniteSets, TLC

VARIABLES now, tenants, licenses, audit, nextTenantId, nextLicenseId, last, sessions

vars == <<now, tenants, licenses, audit, nextTenantId, nextLicenseId, last, sessions>>

(***************************************************************************)
(* Bounds of the model.                                                    *)
(***************************************************************************)
MaxNow == 4
SubSec == 2
DaySecs == 1
MaxAudit == 3
MaxTenants == 2
MaxSessions == 2

DayTicks == DaySecs * SubSec

(***************************************************************************)
(* Optional values: None is the empty tuple, a present value a 1-tuple.    *)
(***************************************************************************)
None == <<>>
Some(v) == <<v>>
\* Python truthiness of an optional string / integer / list
TruthyStr(o) == o # None /\ o[1] # ""
TruthyInt(o) == o # None /\ o[1] # 0
OrEmptyList(l) == IF l = <<>> THEN <<>> ELSE l

(***************************************************************************)
(* Program constants.                                                      *)
(***************************************************************************)
SECRET_KEY == "dev-secret-key-change-in-production"
ISSUER == "churnvision.tech"
DefaultExpirationDays == 365
DefaultMaxUsers == 5

tier_features(tier) ==
    CASE tier = "STARTER" -> <<"home", "data-management", "settings">>
      [] tier = "PROFESSIONAL" ->
            <<"home", "data-management", "settings", "ai-assistant", "knowledge-base">>
      [] tier = "ENTERPRISE" ->
            <<"home", "data-management", "settings", "ai-assistant", "knowledge-base",
              "playground", "gdpr">>
      [] OTHER -> <<>>

map_tier_to_spec(tier_value) ==
    CASE tier_value = "STARTER" -> "starter"
      [] tier_value = "PROFESSIONAL" -> "pro"
      [] tier_value = "ENTERPRISE" -> "enterprise"
      [] OTHER -> tier_value

(***************************************************************************)
(* Inputs the operations are called with.                                  *)
(***************************************************************************)
Slugs == {"acme"}
TierInputs == {"ENTERPRISE"}
EmployeeInputs == {None}
UserInputs == {None}
GrantInputs == {[max_employees |-> Some(50), features |-> <<"x", "y">>]}
DayInputs == {1}
\* day counts a caller may pass, the nonpositive ones included
AnyDayInputs == {-1, 1}
ExtendInputs == {-1, 1}
ReasonInputs == {"non-payment", "fraud"}
\* the reason DELETE /licenses/{id} passes when the caller gives none
DefaultReason == "Revoked via API"
InstallationInputs == {Some("inst-1")}
FingerprintInputs == {None}
Actors == {"system"}

(***************************************************************************)
(* Time conversions.                                                       *)
(***************************************************************************)
\* timegm(dt.utctimetuple()): whole seconds, the sub-second part dropped
Timegm(t) == t \div SubSec
\* datetime + timedelta(days = d)
PlusDays(t, d) == t + d * DayTicks
\* datetime.isoformat(): a string that names the instant
Isoformat(t) == [iso |-> t]
\* timedelta.days: whole days, rounded down
DeltaDays(a, b) == (a - b) \div DayTicks

(***************************************************************************)
(* Signed tokens (jose.jwt with HS256).                                    *)
(***************************************************************************)
HS256(key, claims) == [alg |-> "HS256", key |-> key, over |-> claims]

\* jwt.encode: datetime claims become whole seconds, then the claims are signed
JwtEncode(claims, key) ==
    LET c == [claims EXCEPT !.iat = Timegm(@), !.exp = Timegm(@)]
    IN  [claims |-> c, sig |-> HS256(key, c)]

JwtSignatureOk(token, key) == token.sig = HS256(key, token.claims)
JwtExpired(token, t) == token.claims.exp < Timegm(t)
\* mutant: the signature is not verified
JwtDecodeUnverified(token, key, t) == ~JwtExpired(token, t)

\* jwt.decode succeeds: the signature verifies and exp has not passed
JwtDecodeOk(token, key, t) == JwtSignatureOk(token, key) /\ ~JwtExpired(token, t)

(***************************************************************************)
(* Rows and records.                                                       *)
(***************************************************************************)
UnknownId == 0
NoCall == [op |-> "none", args |-> [none |-> TRUE], status |-> "none",
           out |-> [none |-> TRUE]]

Call(op, args, status, out) == [op |-> op, args |-> args, status |-> status, out |-> out]
Raise(op, args, status, message) == Call(op, args, status, [message |-> message])

\* Tenant(...) as create_tenant builds it
NewTenantRow(tenant_in) ==
    [name            |-> tenant_in.name,
     slug            |-> tenant_in.slug,
     tier            |-> tenant_in.tier,
     features_enabled |-> tier_features(tenant_in.tier),
     max_employees   |-> tenant_in.max_employees,
     max_users       |-> IF TruthyInt(tenant_in.max_users)
                           THEN tenant_in.max_users ELSE Some(DefaultMaxUsers)]

\* LicenseCreate(...) as create_tenant builds it for the automatic license
AutoLicenseIn(tenant_id, tenant_in) ==
    [tenant_id       |-> tenant_id,
     expiration_days |-> DefaultExpirationDays,
     max_employees   |-> tenant_in.max_employees,
     max_users       |-> IF TruthyInt(tenant_in.max_users)
                           THEN tenant_in.max_users ELSE Some(DefaultMaxUsers),
     features        |-> tier_features(tenant_in.tier)]

\* the claims generate_license signs
TokenPayload(tenant, license_in, issued_at, expires_at) ==
    [iss      |-> ISSUER,
     sub      |-> <<"tenant_", tenant.slug>>,
     iat      |-> issued_at,
     exp      |-> expires_at,
     features |-> license_in.features,
     limits   |-> [max_employees |-> license_in.max_employees,
                   max_users     |-> license_in.max_users]]

\* License(...) as generate_license builds it
NewLicenseRow(tenant_id, tenant, license_in, issued_at) ==
    LET expires_at == PlusDays(issued_at, license_in.expiration_days)
    IN  [tenant_id         |-> tenant_id,
         key_string        |-> JwtEncode(TokenPayload(tenant, license_in, issued_at,
                                                      expires_at), SECRET_KEY),
         issued_at         |-> issued_at,
         expires_at        |-> expires_at,
         revoked           |-> FALSE,
         revoked_at        |-> None,
         revocation_reason |-> None,
         max_employees     |-> license_in.max_employees,
         max_users         |-> license_in.max_users,
         features          |-> license_in.features]

\* mutant: the flag is toggled instead of set
RevokedRowToggled(row, reason, t) ==
    [row EXCEPT !.revoked = ~@, !.revoked_at = Some(t),
                !.revocation_reason = Some(reason)]

\* mutant: a row that is already revoked keeps its first revocation
RevokedRowFirstWins(row, reason, t) ==
    IF row.revoked THEN row
    ELSE [row EXCEPT !.revoked = TRUE, !.revoked_at = Some(t),
                     !.revocation_reason = Some(reason)]

\* the fields revoke_license assigns
RevokedRow(row, reason, t) ==
    [row EXCEPT !.revoked = TRUE, !.revoked_at = Some(t),
                !.revocation_reason = Some(reason)]

\* mutant: the new expiry is counted from the issue date, not from the old expiry
ExtendedRowFromIssue(row, additional_days) ==
    [row EXCEPT !.expires_at = PlusDays(row.issued_at, additional_days)]

\* mutant: the token is signed again with the new expiry
ExtendedRowResigned(row, additional_days) ==
    LET expires_at == PlusDays(row.expires_at, additional_days)
        claims == [row.key_string.claims EXCEPT !.exp = Timegm(expires_at)]
    IN  [row EXCEPT !.expires_at = expires_at,
                    !.key_string = [claims |-> claims, sig |-> HS256(SECRET_KEY, claims)]]

\* the field extend_license assigns
ExtendedRow(row, additional_days) ==
    [row EXCEPT !.expires_at = PlusDays(row.expires_at, additional_days)]

\* LicenseAuditLog(...); performed_at defaults to utcnow
AuditEntry(license_id, action, performed_by, t, details) ==
    [license_id   |-> license_id,
     action       |-> action,
     performed_at |-> t,
     performed_by |-> performed_by,
     details      |-> details]

\* mutant: the revocation is logged under the tag of an extension
RevokedAuditMistagged(license_id, reason, performed_by, t) ==
    AuditEntry(license_id, "EXTENDED", performed_by, t, [reason |-> reason])

IssuedAudit(license_id, license_in, performed_by, t) ==
    AuditEntry(license_id, "ISSUED", performed_by, t,
               [expiry_days |-> license_in.expiration_days])

RevokedAudit(license_id, reason, performed_by, t) ==
    AuditEntry(license_id, "REVOKED", performed_by, t, [reason |-> reason])

ExtendedAudit(license_id, old_expiry, new_expiry, additional_days, performed_by, t) ==
    AuditEntry(license_id, "EXTENDED", performed_by, t,
               [old_expiry      |-> Isoformat(old_expiry),
                new_expiry      |-> Isoformat(new_expiry),
                additional_days |-> additional_days])

ValidatedAudit(license_id, installation_id, hardware_fingerprint, t) ==
    AuditEntry(license_id, "VALIDATED", "api", t,
               [timestamp            |-> Isoformat(t),
                installation_id      |-> installation_id,
                hardware_fingerprint |-> hardware_fingerprint])

\* the db sessions of the requests in flight: what a session has staged is in
\* the store only once the session commits
SessionIds == 1..MaxSessions
NoSession == [pc |-> "idle", op |-> "none", insert |-> None, update |-> None,
              entry |-> None]

(***************************************************************************)
(* Initial state: an empty store.                                          *)
(***************************************************************************)
Init ==
    /\ now = 0
    /\ tenants = << >>
    /\ licenses = << >>
    /\ audit = << >>
    /\ nextTenantId = 1
    /\ nextLicenseId = 1
    /\ last = NoCall
    /\ sessions = [s \in SessionIds |-> NoSession]

\* no request is being served
Idle == last = NoCall

\* the clock advances between requests, and between the steps a request takes
\* in the store; a handler's work in memory up to its flush falls within a tick
Tick ==
    /\ Idle
    /\ \A s \in SessionIds : sessions[s].pc # "staged"
    /\ now < MaxNow
    /\ now' = now + 1
    /\ UNCHANGED <<tenants, licenses, audit, nextTenantId, nextLicenseId, last, sessions>>

\* the response of the request just served is handed to the caller; every
\* request below is served from start to commit while no other is
Respond ==
    /\ ~Idle
    /\ last' = NoCall
    /\ UNCHANGED <<now, tenants, licenses, audit, nextTenantId, nextLicenseId, sessions>>

(***************************************************************************)
(* Tenant directory (tenant_service, api/v1/tenants).                      *)
(***************************************************************************)
TenantIds == DOMAIN tenants
LicenseIds == DOMAIN licenses

TenantIdsBySlug(slug) == {t \in TenantIds : tenants[t].slug = slug}
LicensesOfTenant(t) == {l \in LicenseIds : licenses[l].tenant_id = t}

\* db.add(License) + db.add(LicenseAuditLog ISSUED) of generate_license
WithIssued(lics, id, tenant_id, tenant, license_in, t) ==
    (id :> NewLicenseRow(tenant_id, tenant, license_in, t)) @@ lics

\* POST /tenants: rejects a slug in use, else creates the tenant and
\* generates its first license
create_tenant(tenant_in) ==
    LET args == [tenant_in |-> tenant_in] IN
    Idle /\ UNCHANGED sessions /\
    IF TenantIdsBySlug(tenant_in.slug) # {}
    THEN /\ last' = Raise("create_tenant", args, "HTTP_400", "Tenant with this slug already exists")
         /\ UNCHANGED <<now, tenants, licenses, audit, nextTenantId, nextLicenseId>>
    ELSE /\ Len(audit) < MaxAudit
         /\ nextTenantId <= MaxTenants
         /\ LET tid == nextTenantId
                lid == nextLicenseId
                row == NewTenantRow(tenant_in)
                license_in == AutoLicenseIn(tid, tenant_in)
            IN  /\ tenants' = (tid :> row) @@ tenants
                /\ licenses' = WithIssued(licenses, lid, tid, row, license_in, now)
                /\ audit' = Append(audit, IssuedAudit(lid, license_in, "system", now))
                /\ last' = Call("create_tenant", args, "ok",
                                [tenant_id |-> tid, license_id |-> lid])
         /\ nextTenantId' = nextTenantId + 1
         /\ nextLicenseId' = nextLicenseId + 1
         /\ UNCHANGED now

\* setattr(tenant, field, value) for every field that was set
UpdatedTenantRow(row, update_data) ==
    [f \in DOMAIN row |->
        IF f \in DOMAIN update_data /\ update_data[f] # None
        THEN update_data[f][1] ELSE row[f]]

\* PUT /tenants/{slug}
update_tenant(slug, update_data) ==
    LET args == [slug |-> slug] IN
    Idle /\ UNCHANGED sessions /\
    IF TenantIdsBySlug(slug) = {}
    THEN /\ last' = Raise("update_tenant", args, "HTTP_404", "Tenant not found")
         /\ UNCHANGED <<now, tenants, licenses, audit, nextTenantId, nextLicenseId>>
    ELSE \E tid \in TenantIdsBySlug(slug) :
         /\ tenants' = [tenants EXCEPT ![tid] = UpdatedTenantRow(@, update_data)]
         /\ last' = Call("update_tenant", args, "ok", [tenant_id |-> tid])
         /\ UNCHANGED <<now, licenses, audit, nextTenantId, nextLicenseId>>

\* db.delete(tenant): the cascade of Tenant.licenses removes the tenant's
\* licenses, the cascade of License.audit_logs their audit entries
WithoutTenant(f, tid) == [t \in DOMAIN f \ {tid} |-> f[t]]
WithoutLicensesOf(lics, tid) ==
    [l \in {m \in DOMAIN lics : lics[m].tenant_id # tid} |-> lics[l]]
WithoutAuditOf(entries, lics, tid) ==
    SelectSeq(entries, LAMBDA e : lics[e.license_id].tenant_id # tid)

\* DELETE /tenants/{slug}
delete_tenant(slug) ==
    LET args == [slug |-> slug] IN
    Idle /\ UNCHANGED sessions /\
    IF TenantIdsBySlug(slug) = {}
    THEN /\ last' = Raise("delete_tenant", args, "HTTP_404", "Tenant not found")
         /\ UNCHANGED <<now, tenants, licenses, audit, nextTenantId, nextLicenseId>>
    ELSE \E tid \in TenantIdsBySlug(slug) :
         /\ tenants' = WithoutTenant(tenants, tid)
         /\ licenses' = WithoutLicensesOf(licenses, tid)
         /\ audit' = WithoutAuditOf(audit, licenses, tid)
         /\ last' = Call("delete_tenant", args, "ok", [tenant_id |-> tid])
         /\ UNCHANGED <<now, nextTenantId, nextLicenseId>>

(***************************************************************************)
(* License service (license_service).                                      *)
(***************************************************************************)
generate_license(license_in, performed_by) ==
    LET args == [license_in |-> license_in, performed_by |-> performed_by] IN
    Idle /\ UNCHANGED sessions /\
    IF license_in.tenant_id \notin TenantIds
    THEN /\ last' = Raise("generate_license", args, "ValueError", "Tenant not found")
         /\ UNCHANGED <<now, tenants, licenses, audit, nextTenantId, nextLicenseId>>
    ELSE /\ Len(audit) < MaxAudit
         /\ LET lid == nextLicenseId
                tenant == tenants[license_in.tenant_id]
            IN  /\ licenses' = WithIssued(licenses, lid, license_in.tenant_id, tenant,
                                          license_in, now)
                /\ audit' = Append(audit, IssuedAudit(lid, license_in, performed_by, now))
                /\ last' = Call("generate_license", args, "ok",
                                [license_id |-> lid,
                                 key_string |-> licenses'[lid].key_string])
         /\ nextLicenseId' = nextLicenseId + 1
         /\ UNCHANGED <<now, tenants, nextTenantId>>

revoke_license(license_id, reason, performed_by) ==
    LET args == [license_id |-> license_id, reason |-> reason] IN
    Idle /\ UNCHANGED sessions /\
    IF license_id \notin LicenseIds
    THEN /\ last' = Raise("revoke_license", args, "ValueError", "License not found")
         /\ UNCHANGED <<now, tenants, licenses, audit, nextTenantId, nextLicenseId>>
    ELSE /\ Len(audit) < MaxAudit
         /\ licenses' = [licenses EXCEPT ![license_id] = RevokedRow(@, reason, now)]
         /\ audit' = Append(audit, RevokedAudit(license_id, reason, performed_by, now))
         /\ last' = Call("revoke_license", args, "ok", [license_id |-> license_id])
         /\ UNCHANGED <<now, tenants, nextTenantId, nextLicenseId>>

\* mutant: the revoked check is missing
CannotExtendNever(row) == FALSE

\* extend_license refuses a revoked row
CannotExtend(row) == row.revoked

\* mutant: the new expiry is assigned and written before the revoked check
extend_license_assign_first(license_id, additional_days, performed_by) ==
    LET args == [license_id |-> license_id, additional_days |-> additional_days] IN
    Idle /\ UNCHANGED sessions /\
    IF license_id \notin LicenseIds
    THEN /\ last' = Raise("extend_license", args, "ValueError", "License not found")
         /\ UNCHANGED <<now, tenants, licenses, audit, nextTenantId, nextLicenseId>>
    ELSE /\ licenses' = [licenses EXCEPT ![license_id] = ExtendedRow(@, additional_days)]
         /\ IF CannotExtend(licenses[license_id])
            THEN /\ last' = Raise("extend_license", args, "ValueError",
                                  "Cannot extend a revoked license")
                 /\ UNCHANGED audit
            ELSE /\ Len(audit) < MaxAudit
                 /\ audit' = Append(audit, ExtendedAudit(license_id,
                                       licenses[license_id].expires_at,
                                       licenses'[license_id].expires_at,
                                       additional_days, performed_by, now))
                 /\ last' = Call("extend_license", args, "ok", [license_id |-> license_id])
         /\ UNCHANGED <<now, tenants, nextTenantId, nextLicenseId>>

extend_license(license_id, additional_days, performed_by) ==
    LET args == [license_id |-> license_id, additional_days |-> additional_days] IN
    Idle /\ UNCHANGED sessions /\
    IF license_id \notin LicenseIds
    THEN /\ last' = Raise("extend_license", args, "ValueError", "License not found")
         /\ UNCHANGED <<now, tenants, licenses, audit, nextTenantId, nextLicenseId>>
    ELSE IF CannotExtend(licenses[license_id])
    THEN /\ last' = Raise("extend_license", args, "ValueError",
                          "Cannot extend a revoked license")
         /\ UNCHANGED <<now, tenants, licenses, audit, nextTenantId, nextLicenseId>>
    ELSE /\ Len(audit) < MaxAudit
         /\ LET old_expiry == licenses[license_id].expires_at
                row == ExtendedRow(licenses[license_id], additional_days)
            IN  /\ licenses' = [licenses EXCEPT ![license_id] = row]
                /\ audit' = Append(audit, ExtendedAudit(license_id, old_expiry,
                                       row.expires_at, additional_days, performed_by, now))
         /\ last' = Call("extend_license", args, "ok", [license_id |-> license_id])
         /\ UNCHANGED <<now, tenants, nextTenantId, nextLicenseId>>

\* tenant fields of a validation result; the defaults stand in for a missing tenant
TenantTier(tenant_id) ==
    IF tenant_id \in TenantIds THEN map_tier_to_spec(tenants[tenant_id].tier) ELSE "starter"
TenantName(tenant_id) ==
    IF tenant_id \in TenantIds THEN tenants[tenant_id].name ELSE "Unknown"
TenantSlug(tenant_id) ==
    IF tenant_id \in TenantIds THEN Some(tenants[tenant_id].slug) ELSE None

\* what validate_license_key returns for a revoked row
RevokedResult(row) ==
    [valid             |-> FALSE,
     revoked           |-> TRUE,
     revocation_reason |-> IF TruthyStr(row.revocation_reason)
                             THEN row.revocation_reason[1]
                             ELSE "License has been revoked",
     revoked_at        |-> IF row.revoked_at # None
                             THEN Some(Isoformat(row.revoked_at[1])) ELSE None,
     license_tier      |-> TenantTier(row.tenant_id),
     company_name      |-> TenantName(row.tenant_id),
     max_employees     |-> row.max_employees,
     expires_at        |-> Isoformat(row.expires_at),
     features          |-> OrEmptyList(row.features)]

\* mutant: the entitlements are read from the tenant instead of the license row
ValidResultLive(license_id, row, t) ==
    [valid             |-> TRUE,
     license_tier      |-> TenantTier(row.tenant_id),
     company_name      |-> TenantName(row.tenant_id),
     max_employees     |-> tenants[row.tenant_id].max_employees,
     expires_at        |-> Isoformat(row.expires_at),
     features          |-> tenants[row.tenant_id].features_enabled,
     revoked           |-> FALSE,
     revocation_reason |-> None,
     revoked_at        |-> None,
     license_id        |-> license_id,
     tenant_id         |-> row.tenant_id,
     tenant_slug       |-> TenantSlug(row.tenant_id),
     issued_at         |-> Isoformat(row.issued_at),
     days_until_expiry |-> DeltaDays(row.expires_at, t)]

\* what validate_license_key returns for a row that passed every check
ValidResult(license_id, row, t) ==
    [valid             |-> TRUE,
     license_tier      |-> TenantTier(row.tenant_id),
     company_name      |-> TenantName(row.tenant_id),
     max_employees     |-> row.max_employees,
     expires_at        |-> Isoformat(row.expires_at),
     features          |-> OrEmptyList(row.features),
     revoked           |-> FALSE,
     revocation_reason |-> None,
     revoked_at        |-> None,
     license_id        |-> license_id,
     tenant_id         |-> row.tenant_id,
     tenant_slug       |-> TenantSlug(row.tenant_id),
     issued_at         |-> Isoformat(row.issued_at),
     days_until_expiry |-> DeltaDays(row.expires_at, t)]

\* the rows whose stored token is exactly the presented one
RowsWithKey(license_key) == {l \in LicenseIds : licenses[l].key_string = license_key}

\* mutant: the instant of expiry already counts as expired
RowExpiredInclusive(row, t) == row.expires_at <= t

\* the row is past its stored expiry
RowExpired(row, t) == row.expires_at < t

validate_license_key(license_key, installation_id, hardware_fingerprint) ==
    LET args == [license_key |-> license_key, installation_id |-> installation_id,
                 hardware_fingerprint |-> hardware_fingerprint] IN
    Idle /\ UNCHANGED sessions /\
    IF ~JwtDecodeOk(license_key, SECRET_KEY, now)
    THEN /\ last' = Raise("validate_license_key", args, "INVALID_FORMAT",
                          "Invalid license key format")
         /\ UNCHANGED <<now, tenants, licenses, audit, nextTenantId, nextLicenseId>>
    ELSE IF RowsWithKey(license_key) = {}
    THEN /\ last' = Raise("validate_license_key", args, "NOT_FOUND", "License not found")
         /\ UNCHANGED <<now, tenants, licenses, audit, nextTenantId, nextLicenseId>>
    ELSE \E lid \in RowsWithKey(license_key) :   \* .first() of an unordered query
         LET row == licenses[lid] IN
         IF row.revoked
         THEN /\ last' = Call("validate_license_key", args, "ok", RevokedResult(row))
              /\ UNCHANGED <<now, tenants, licenses, audit, nextTenantId, nextLicenseId>>
         ELSE IF RowExpired(row, now)
         THEN /\ last' = Raise("validate_license_key", args, "EXPIRED",
                               "License has expired")
              /\ UNCHANGED <<now, tenants, licenses, audit, nextTenantId, nextLicenseId>>
         ELSE /\ Len(audit) < MaxAudit
              /\ audit' = Append(audit, ValidatedAudit(lid, installation_id,
                                                       hardware_fingerprint, now))
              /\ last' = Call("validate_license_key", args, "ok",
                              ValidResult(lid, row, now))
              /\ UNCHANGED <<now, tenants, licenses, nextTenantId, nextLicenseId>>

\* the filter of validate_license_by_tenant_slug: not revoked, expiry ahead
ActiveLicenses(tid, t) ==
    {l \in LicensesOfTenant(tid) : ~licenses[l].revoked /\ licenses[l].expires_at > t}

\* mutant: the query is ordered by expires_at ascending
ShortestLived(ls) ==
    {l \in ls : \A m \in ls : licenses[l].expires_at <= licenses[m].expires_at}

\* order_by(expires_at.desc()).first(): a row that no other row of ls outlives
LongestLived(ls) ==
    {l \in ls : \A m \in ls : licenses[m].expires_at <= licenses[l].expires_at}

\* what validate_license_by_tenant_slug returns for the row it selected
SlugResult(license_id, tid, t) ==
    LET row == licenses[license_id]
        tenant == tenants[tid]
    IN  [valid             |-> TRUE,
         license_tier      |-> map_tier_to_spec(tenant.tier),
         company_name      |-> tenant.name,
         max_employees     |-> row.max_employees,
         expires_at        |-> Isoformat(row.expires_at),
         features          |-> OrEmptyList(row.features),
         revoked           |-> FALSE,
         revocation_reason |-> None,
         revoked_at        |-> None,
         license_id        |-> license_id,
         tenant_id         |-> tid,
         tenant_slug       |-> Some(tenant.slug),
         issued_at         |-> Isoformat(row.issued_at),
         days_until_expiry |-> DeltaDays(row.expires_at, t)]

\* mutant: the lookup by slug is logged like a validation by token
SlugAuditLogged(entries, license_id, t) ==
    Append(entries, ValidatedAudit(license_id, None, None, t))

\* the audit trail after a lookup by slug: nothing is added
SlugAudit(entries, license_id, t) == entries

validate_license_by_tenant_slug(tenant_slug) ==
    LET args == [tenant_slug |-> tenant_slug] IN
    Idle /\ UNCHANGED sessions /\
    IF TenantIdsBySlug(tenant_slug) = {}
    THEN /\ last' = Raise("validate_license_by_tenant_slug", args, "TENANT_NOT_FOUND",
                          "Tenant not found")
         /\ UNCHANGED <<now, tenants, licenses, audit, nextTenantId, nextLicenseId>>
    ELSE \E tid \in TenantIdsBySlug(tenant_slug) :
         IF ActiveLicenses(tid, now) = {}
         THEN /\ last' = Raise("validate_license_by_tenant_slug", args, "NO_LICENSE",
                               "No valid license found for tenant")
              /\ UNCHANGED <<now, tenants, licenses, audit, nextTenantId, nextLicenseId>>
         ELSE \E lid \in LongestLived(ActiveLicenses(tid, now)) :
              /\ last' = Call("validate_license_by_tenant_slug", args, "ok",
                              SlugResult(lid, tid, now))
              /\ audit' = SlugAudit(audit, lid, now)
              /\ UNCHANGED <<now, tenants, licenses, nextTenantId, nextLicenseId>>

\* LicenseValidationErrorResponse(...): the fields the schema declares
LicenseValidationErrorResponse(error, revoked, revocation_reason, revoked_at) ==
    [valid             |-> FALSE,
     error             |-> error,
     revoked           |-> revoked,
     revocation_reason |-> revocation_reason,
     revoked_at        |-> revoked_at]

\* POST /licenses/validate: the body the endpoint answers a served call with
validate_license(call) ==
    IF call.status = "ok"
    THEN IF ~call.out.valid
         THEN LicenseValidationErrorResponse(call.out.revocation_reason,
                  Some(call.out.revoked), Some(call.out.revocation_reason),
                  call.out.revoked_at)
         ELSE call.out
    ELSE LicenseValidationErrorResponse(call.out.message, None, None, None)

(***************************************************************************)
(* The requests the environment can make.                                  *)
(***************************************************************************)
TenantInputs ==
    [name : {"Acme Corp"}, slug : Slugs, tier : TierInputs,
     max_employees : EmployeeInputs, max_users : UserInputs]

\* TenantUpdate bodies: a field is None when the request leaves it unset
TenantUpdateInputs ==
    {[tier |-> Some("STARTER"), max_employees |-> Some(Some(10)),
      features_enabled |-> Some(<<"z">>)]}

LicenseInputs ==
    {[tenant_id |-> t, expiration_days |-> d, max_employees |-> g.max_employees,
      max_users |-> u, features |-> g.features] :
        t \in TenantIds \cup {UnknownId}, d \in DayInputs, u \in UserInputs,
        g \in GrantInputs}

AnyLicenseInputs ==
    {[tenant_id |-> t, expiration_days |-> d, max_employees |-> g.max_employees,
      max_users |-> u, features |-> g.features] :
        t \in TenantIds \cup {UnknownId}, d \in AnyDayInputs, u \in UserInputs,
        g \in GrantInputs}

\* a token signed by this control plane that no License row holds
ForeignToken ==
    JwtEncode([iss |-> ISSUER, sub |-> <<"tenant_", "nobody">>, iat |-> 0,
               exp |-> MaxNow, features |-> <<>>,
               limits |-> [max_employees |-> None, max_users |-> None]], SECRET_KEY)

\* a stored token with its signature segment altered
TamperedSignature(token) == [token EXCEPT !.sig = [@ EXCEPT !.alg = "flipped"]]
\* a stored token whose embedded expiry was pushed out, the signature kept
TamperedExpiry(token) == [token EXCEPT !.claims.exp = @ + DaySecs]

StoredKeys == {licenses[l].key_string : l \in LicenseIds}
KeyInputs ==
    StoredKeys \cup {TamperedSignature(k) : k \in StoredKeys}
               \cup {TamperedExpiry(k) : k \in StoredKeys} \cup {ForeignToken}

Next ==
    \/ Tick
    \/ Respond
    \/ \E tenant_in \in TenantInputs : create_tenant(tenant_in)
    \/ \E slug \in Slugs, update_data \in TenantUpdateInputs : update_tenant(slug, update_data)
    \/ \E license_in \in LicenseInputs, by \in Actors : generate_license(license_in, by)
    \/ \E l \in LicenseIds \cup {UnknownId}, reason \in ReasonInputs, by \in Actors :
          revoke_license(l, reason, by)
    \/ \E l \in LicenseIds \cup {UnknownId}, d \in ExtendInputs, by \in Actors :
          extend_license(l, d, by)
    \/ \E k \in KeyInputs, i \in InstallationInputs, h \in FingerprintInputs :
          validate_license_key(k, i, h)

Spec == Init /\ [][Next]_vars

\* the tenant directory with its deletions, the lookup by slug, issue called
\* with any day count, and revocation with the endpoint's default reason
NextDirectory ==
    \/ Tick
    \/ Respond
    \/ \E tenant_in \in TenantInputs : create_tenant(tenant_in)
    \/ \E slug \in Slugs : delete_tenant(slug)
    \/ \E license_in \in AnyLicenseInputs, by \in Actors : generate_license(license_in, by)
    \/ \E l \in LicenseIds \cup {UnknownId}, by \in Actors :
          revoke_license(l, DefaultReason, by)
    \/ \E slug \in Slugs : validate_license_by_tenant_slug(slug)

SpecDirectory == Init /\ [][NextDirectory]_vars

(***************************************************************************)
(* The two validations side by side: a tenant keeps the one license that   *)
(* create_tenant issued, which is extended (by day counts of either sign,  *)
(* up to giving back the whole first year), revoked, and validated by      *)
(* token and by slug.                                                      *)
(***************************************************************************)
ParityExtendInputs == {-DefaultExpirationDays, 1}

NextParity ==
    \/ Tick
    \/ Respond
    \/ \E tenant_in \in TenantInputs : create_tenant(tenant_in)
    \/ \E l \in LicenseIds, d \in ParityExtendInputs, by \in Actors :
          extend_license(l, d, by)
    \/ \E l \in LicenseIds, by \in Actors : revoke_license(l, DefaultReason, by)
    \/ \E k \in StoredKeys, i \in InstallationInputs, h \in FingerprintInputs :
          validate_license_key(k, i, h)
    \/ \E slug \in Slugs : validate_license_by_tenant_slug(slug)

SpecParity == Init /\ [][NextParity]_vars

(***************************************************************************)
(* The license operations step by step, for requests served concurrently.  *)
(* A handler stages its License change and its audit entry in its session; *)
(* db.commit() sends them to the store (flush) and then commits them.      *)
(* Only the paths that reach db.commit() are stepped here; the paths that  *)
(* raise write nothing and are the ones of the actions above.              *)
(***************************************************************************)
Staged(op, insert, update, entry) ==
    [pc |-> "staged", op |-> op, insert |-> insert, update |-> update, entry |-> Some(entry)]

\* a fresh request takes the first session that is not in use
InUse(s) == sessions[s].pc \in {"staged", "flushed"}
Free(s) == ~InUse(s) /\ \A o \in SessionIds : o < s => InUse(o)

\* room in the bounded trail for the entries already staged
AuditRoom == Len(audit) + Cardinality({s \in SessionIds : InUse(s)}) < MaxAudit

\* generate_license up to db.add(audit)
begin_generate(s, license_in, performed_by) ==
    /\ Idle /\ Free(s) /\ AuditRoom
    /\ license_in.tenant_id \in TenantIds
    /\ LET row == NewLicenseRow(license_in.tenant_id, tenants[license_in.tenant_id],
                                license_in, now)
       IN  sessions' = [sessions EXCEPT ![s] =
               Staged("generate_license", Some([id |-> UnknownId, row |-> row]), None,
                      IssuedAudit(UnknownId, license_in, performed_by, now))]
    /\ UNCHANGED <<now, tenants, licenses, audit, nextTenantId, nextLicenseId, last>>

\* mutant: the revocation is staged without its audit entry
RevokeStagedNoAudit(license_id, reason, performed_by, t) ==
    [pc |-> "staged", op |-> "revoke_license", insert |-> None,
     update |-> Some([id |-> license_id,
                      cols |-> [revoked |-> TRUE, revoked_at |-> Some(t),
                                revocation_reason |-> Some(reason)]]),
     entry |-> None]

\* the columns revoke_license assigns and the entry it adds
RevokeStaged(license_id, reason, performed_by, t) ==
    Staged("revoke_license", None,
           Some([id |-> license_id,
                 cols |-> [revoked |-> TRUE, revoked_at |-> Some(t),
                           revocation_reason |-> Some(reason)]]),
           RevokedAudit(license_id, reason, performed_by, t))

\* revoke_license up to db.add(audit)
begin_revoke(s, license_id, reason, performed_by) ==
    /\ Idle /\ Free(s) /\ AuditRoom
    /\ license_id \in LicenseIds
    /\ sessions' = [sessions EXCEPT ![s] = RevokeStaged(license_id, reason, performed_by, now)]
    /\ UNCHANGED <<now, tenants, licenses, audit, nextTenantId, nextLicenseId, last>>

\* extend_license up to db.add(audit)
begin_extend(s, license_id, additional_days, performed_by) ==
    /\ Idle /\ Free(s) /\ AuditRoom
    /\ license_id \in LicenseIds
    /\ ~CannotExtend(licenses[license_id])
    /\ LET old_expiry == licenses[license_id].expires_at
           new_expiry == ExtendedRow(licenses[license_id], additional_days).expires_at
       IN  sessions' = [sessions EXCEPT ![s] =
               Staged("extend_license", None,
                      Some([id |-> license_id, cols |-> [expires_at |-> new_expiry]]),
                      ExtendedAudit(license_id, old_expiry, new_expiry, additional_days,
                                    performed_by, now))]
    /\ UNCHANGED <<now, tenants, licenses, audit, nextTenantId, nextLicenseId, last>>

\* validate_license_key up to db.add(audit): the token decodes, its row is
\* found, not revoked and not expired
\* mutant: the row's revoked flag is not looked at
begin_validate_unchecked(s, license_key, installation_id, hardware_fingerprint) ==
    /\ Idle /\ Free(s) /\ AuditRoom
    /\ JwtDecodeOk(license_key, SECRET_KEY, now)
    /\ \E lid \in RowsWithKey(license_key) :
          /\ ~RowExpired(licenses[lid], now)
          /\ sessions' = [sessions EXCEPT ![s] =
                 Staged("validate_license_key", None, None,
                        ValidatedAudit(lid, installation_id, hardware_fingerprint, now))]
    /\ UNCHANGED <<now, tenants, licenses, audit, nextTenantId, nextLicenseId, last>>

begin_validate(s, license_key, installation_id, hardware_fingerprint) ==
    /\ Idle /\ Free(s) /\ AuditRoom
    /\ JwtDecodeOk(license_key, SECRET_KEY, now)
    /\ \E lid \in RowsWithKey(license_key) :
          /\ ~licenses[lid].revoked
          /\ ~RowExpired(licenses[lid], now)
          /\ sessions' = [sessions EXCEPT ![s] =
                 Staged("validate_license_key", None, None,
                        ValidatedAudit(lid, installation_id, hardware_fingerprint, now))]
    /\ UNCHANGED <<now, tenants, licenses, audit, nextTenantId, nextLicenseId, last>>

\* another session has sent an UPDATE of the same row and not yet committed
RowLocked(s) ==
    /\ sessions[s].update # None
    /\ \E o \in SessionIds \ {s} :
          /\ sessions[o].pc = "flushed"
          /\ sessions[o].update # None
          /\ sessions[o].update[1].id = sessions[s].update[1].id

\* db.commit(), first half: the UPDATE / INSERTs are sent inside the session's
\* transaction; the INSERT of the audit entry evaluates the column default
\* performed_at = utcnow()
Flush(s) ==
    /\ Idle
    /\ sessions[s].pc = "staged"
    /\ ~RowLocked(s)
    /\ sessions' = [sessions EXCEPT ![s] =
           [@ EXCEPT !.pc = "flushed",
                     !.entry = IF @ = None THEN None
                               ELSE Some([@[1] EXCEPT !.performed_at = now])]]
    /\ UNCHANGED <<now, tenants, licenses, audit, nextTenantId, nextLicenseId, last>>

\* the store after the writes of a session took effect
ApplyUpdate(row, cols) ==
    [f \in DOMAIN row |-> IF f \in DOMAIN cols THEN cols[f] ELSE row[f]]
LicensesAfter(lics, session) ==
    IF session.insert # None
    THEN (nextLicenseId :> session.insert[1].row) @@ lics
    ELSE IF session.update # None
    THEN [lics EXCEPT ![session.update[1].id] = ApplyUpdate(@, session.update[1].cols)]
    ELSE lics
AuditAfter(entries, session) ==
    IF session.entry = None THEN entries
    ELSE IF session.insert # None
    THEN Append(entries, [session.entry[1] EXCEPT !.license_id = nextLicenseId])
    ELSE Append(entries, session.entry[1])

\* db.commit(), second half: everything the session sent becomes visible at
\* once; the id of an inserted License (a uuid4 nothing else refers to before
\* the commit) is drawn here
Commit(s) ==
    /\ Idle
    /\ sessions[s].pc = "flushed"
    /\ licenses' = LicensesAfter(licenses, sessions[s])
    /\ audit' = AuditAfter(audit, sessions[s])
    /\ nextLicenseId' = IF sessions[s].insert # None THEN nextLicenseId + 1
                        ELSE nextLicenseId
    /\ sessions' = [sessions EXCEPT ![s] = NoSession]
    /\ UNCHANGED <<now, tenants, nextTenantId, last>>

\* the process or the connection dies before the commit: the store rolls the
\* session's transaction back
Crash(s) ==
    /\ Idle
    /\ sessions[s].pc \in {"staged", "flushed"}
    /\ sessions' = [sessions EXCEPT ![s] = NoSession]
    /\ UNCHANGED <<now, tenants, licenses, audit, nextTenantId, nextLicenseId, last>>

\* the results get_license_audit_logs can return: the entries of the license
\* ordered by performed_at descending, entries of equal performed_at in any order
get_license_audit_logs(license_id) ==
    LET mine == SelectSeq(audit, LAMBDA e : e.license_id = license_id)
        n == Len(mine)
        reads == {[i \in 1..n |-> mine[p[i]]] : p \in Permutations(1..n)}
    IN  {r \in reads : \A i \in 1..(n - 1) : r[i].performed_at >= r[i + 1].performed_at}

NextConcurrent ==
    \/ Tick
    \/ Respond
    \/ \E tenant_in \in TenantInputs : TenantIds = {} /\ create_tenant(tenant_in)
    \/ \E s \in SessionIds, license_in \in LicenseInputs, by \in Actors :
          begin_generate(s, license_in, by)
    \/ \E s \in SessionIds, l \in LicenseIds, by \in Actors :
          begin_revoke(s, l, DefaultReason, by)
    \/ \E s \in SessionIds, l \in LicenseIds, d \in ExtendInputs, by \in Actors :
          begin_extend(s, l, d, by)
    \/ \E s \in SessionIds, k \in StoredKeys, i \in InstallationInputs,
          h \in FingerprintInputs : begin_validate(s, k, i, h)
    \/ \E s \in SessionIds : Flush(s)
    \/ \E s \in SessionIds : Commit(s)
    \/ \E s \in SessionIds : Crash(s)

SpecConcurrent == Init /\ [][NextConcurrent]_vars

(***************************************************************************)
(* Tenant creation step by step. create_tenant commits the Tenant row and  *)
(* then calls generate_license on the same session, which stages the       *)
(* License and its ISSUED entry and commits a second time.                 *)
(***************************************************************************)
\* create_tenant up to the db.add(audit) of its generate_license call: the
\* Tenant row is committed, the License and its entry are pending
begin_create_tenant(s, tenant_in) ==
    /\ Idle /\ Free(s) /\ AuditRoom
    /\ TenantIdsBySlug(tenant_in.slug) = {}
    /\ nextTenantId <= MaxTenants
    /\ LET tid == nextTenantId
           row == NewTenantRow(tenant_in)
           license_in == AutoLicenseIn(tid, tenant_in)
       IN  /\ tenants' = (tid :> row) @@ tenants
           /\ sessions' = [sessions EXCEPT ![s] =
                  Staged("create_tenant",
                         Some([id |-> UnknownId,
                               row |-> NewLicenseRow(tid, row, license_in, now)]),
                         None,
                         IssuedAudit(UnknownId, license_in, "system", now))]
    /\ nextTenantId' = nextTenantId + 1
    /\ UNCHANGED <<now, licenses, audit, nextLicenseId, last>>

NextProvision ==
    \/ Tick
    \/ \E s \in SessionIds, tenant_in \in TenantInputs : begin_create_tenant(s, tenant_in)
    \/ \E s \in SessionIds, l \in LicenseIds, by \in Actors :
          begin_revoke(s, l, DefaultReason, by)
    \/ \E s \in SessionIds, l \in LicenseIds, d \in ExtendInputs, by \in Actors :
          begin_extend(s, l, d, by)
    \/ \E s \in SessionIds, k \in StoredKeys, i \in InstallationInputs,
          h \in FingerprintInputs : begin_validate(s, k, i, h)
    \/ \E s \in SessionIds : Flush(s)
    \/ \E s \in SessionIds : Commit(s)
    \/ \E s \in SessionIds : Crash(s)

SpecProvision == Init /\ [][NextProvision]_vars

(***************************************************************************)
(* Properties.                                                             *)
(***************************************************************************)
\* a step that serves a request op and leaves its response in last'
Served(op) == Idle /\ last'.op = op

AuditOf(l) == SelectSeq(audit, LAMBDA e : e.license_id = l)
NeverExtended(l) == \A i \in 1..Len(audit) :
                        ~(audit[i].license_id = l /\ audit[i].action = "EXTENDED")

\* every row that stores token k is as issued: not revoked, not extended, and
\* the clock has not passed its expiry
AsIssuedAndCurrent(k) ==
    /\ RowsWithKey(k) # {}
    /\ \A l \in RowsWithKey(k) :
          /\ ~licenses[l].revoked
          /\ NeverExtended(l)
          /\ now <= licenses[l].expires_at

\* C1: validating the token that issue returned, before its expiry and with no
\* revocation, returns valid=true with the features and max_employees that were
\* passed to issue (the token carries them), whatever the tenant's live
\* entitlements have become since.
C1_RoundTrip ==
    [][ (Served("validate_license_key") /\ AsIssuedAndCurrent(last'.args.license_key))
        => /\ last'.status = "ok"
           /\ last'.out.valid
           /\ last'.out.features = last'.args.license_key.claims.features
           /\ last'.out.max_employees
                 = last'.args.license_key.claims.limits.max_employees ]_vars

\* a valid result whose entitlements differ from the tenant's live ones,
\* the tenant having been updated since the license was issued
C1_Witness ==
    /\ last.op = "validate_license_key"
    /\ last.status = "ok"
    /\ last.out.valid
    /\ last.out.max_employees = Some(50)
    /\ last.out.features = <<"x", "y">>
    /\ tenants[last.out.tenant_id].tier = "STARTER"
    /\ tenants[last.out.tenant_id].max_employees = Some(10)
    /\ tenants[last.out.tenant_id].features_enabled = <<"z">>

\* C3: a token whose signature does not verify is always answered with
\* INVALID_FORMAT, never with NOT_FOUND, a valid result or a revoked result.
C3_TamperRejected ==
    (last.op = "validate_license_key"
       /\ ~JwtSignatureOk(last.args.license_key, SECRET_KEY))
    => last.status = "INVALID_FORMAT"

\* a stored, unexpired token with its signature altered was presented and rejected
C3_Witness ==
    /\ last.op = "validate_license_key"
    /\ last.status = "INVALID_FORMAT"
    /\ \E k \in StoredKeys :
          /\ last.args.license_key = TamperedSignature(k)
          /\ ~JwtExpired(k, now)

\* the request served by the step ended in success (for a validation: valid=true)
Succeeded(call) ==
    /\ call.status = "ok"
    /\ call.op = "validate_license_key" => call.out.valid

\* the audit tag of an operation, and the license a served call acted on
TagOf(op) ==
    CASE op = "generate_license" -> "ISSUED"
      [] op = "create_tenant" -> "ISSUED"
      [] op = "validate_license_key" -> "VALIDATED"
      [] op = "revoke_license" -> "REVOKED"
      [] op = "extend_license" -> "EXTENDED"

ActedOn(call) ==
    IF call.op \in {"revoke_license", "extend_license"}
    THEN call.args.license_id ELSE call.out.license_id

LicenseOps == {"generate_license", "create_tenant", "validate_license_key",
               "revoke_license", "extend_license"}

\* C5: every issue, validate, revoke or extend call that succeeds appends exactly
\* one audit entry, for the license it acted on, tagged ISSUED, VALIDATED,
\* REVOKED or EXTENDED respectively; a call that does not succeed appends none.
C5_AuditCompleteness ==
    [][ (Idle /\ last'.op \in LicenseOps)
        => IF Succeeded(last')
           THEN /\ Len(audit') = Len(audit) + 1
                /\ SubSeq(audit', 1, Len(audit)) = audit
                /\ audit'[Len(audit')].action = TagOf(last'.op)
                /\ audit'[Len(audit')].license_id = ActedOn(last')
           ELSE audit' = audit ]_vars

\* a license was issued, validated and revoked, one entry each, and an extend
\* call on it has just failed without adding a fourth
C5_Witness ==
    \E l \in LicenseIds :
       /\ Len(AuditOf(l)) = 3
       /\ {AuditOf(l)[i].action : i \in 1..3} = {"ISSUED", "VALIDATED", "REVOKED"}
       /\ last.op = "extend_license" /\ last.args.license_id = l
       /\ last.status = "ValueError"

\* days granted at issue and the sum of the days of the extensions, per the trail
RECURSIVE SumDays(_, _)
SumDays(entries, l) ==
    IF entries = <<>> THEN 0
    ELSE LET e == Head(entries)
             d == IF e.license_id # l THEN 0
                  ELSE IF e.action = "ISSUED" THEN e.details.expiry_days
                  ELSE IF e.action = "EXTENDED" THEN e.details.additional_days
                  ELSE 0
         IN  d + SumDays(Tail(entries), l)

Extensions(l) == SelectSeq(audit, LAMBDA e : e.license_id = l /\ e.action = "EXTENDED")

\* C6: after any sequence of successful extend calls with day counts d1..dn, of
\* either sign, expires_at is the expiry set at issue plus (d1 + ... + dn) days.
C6_ExtensionSum ==
    \A l \in LicenseIds :
       licenses[l].expires_at = PlusDays(licenses[l].issued_at, SumDays(audit, l))

\* a license extended by a positive and then by a negative day count
C6_Witness ==
    \E l \in LicenseIds :
       /\ Len(Extensions(l)) = 2
       /\ Extensions(l)[1].details.additional_days > 0
       /\ Extensions(l)[2].details.additional_days < 0

\* C7: extend on a revoked license fails with the invalid-state error and
\* leaves the license rows and the audit trail as they were.
C7_ExtendRevokedFails ==
    [][ (/\ Served("extend_license")
         /\ last'.args.license_id \in LicenseIds
         /\ licenses[last'.args.license_id].revoked)
        => /\ last'.status = "ValueError"
           /\ last'.out.message = "Cannot extend a revoked license"
           /\ licenses' = licenses
           /\ audit' = audit ]_vars

\* an extend call on a revoked license has just been refused
C7_Witness ==
    /\ last.op = "extend_license"
    /\ last.status = "ValueError"
    /\ last.args.license_id \in LicenseIds
    /\ licenses[last.args.license_id].revoked

\* C8: once a license is revoked, no step sets its revoked flag back to false.
C8_RevokedMonotonic ==
    [][ \A l \in LicenseIds :
           licenses[l].revoked => (l \in DOMAIN licenses' /\ licenses'[l].revoked) ]_vars

\* a revoked license on which a further revoke has been served
C8_Witness ==
    \E l \in LicenseIds :
       /\ licenses[l].revoked
       /\ last.op = "revoke_license" /\ last.status = "ok" /\ last.args.license_id = l
       /\ Len(SelectSeq(audit, LAMBDA e : e.license_id = l /\ e.action = "REVOKED")) = 2

\* the revoked rows that store token k
RevokedRowsWithKey(k) == {l \in RowsWithKey(k) : licenses[l].revoked}

\* C2: once the license issued with token T is revoked, every later validation
\* of T returns, without raising, valid=false and revoked=true with the reason
\* given to revoke, and never valid=true.
C2_RevokedReported ==
    [][ (/\ Served("validate_license_key")
         /\ RevokedRowsWithKey(last'.args.license_key) # {})
        => /\ last'.status = "ok"
           /\ ~last'.out.valid
           /\ last'.out.revoked
           /\ \E l \in RevokedRowsWithKey(last'.args.license_key) :
                 last'.out.revocation_reason = licenses[l].revocation_reason[1] ]_vars

\* C4: a non-revoked license whose expires_at is one second behind the clock is
\* answered with EXPIRED, and one whose expires_at is one second ahead of the
\* clock with valid=true.
C4_ExpiryBoundary ==
    [][ (/\ Served("validate_license_key")
         /\ RowsWithKey(last'.args.license_key) # {}
         /\ RevokedRowsWithKey(last'.args.license_key) = {})
        => \A l \in RowsWithKey(last'.args.license_key) :
              /\ licenses[l].expires_at = now - SubSec => last'.status = "EXPIRED"
              /\ licenses[l].expires_at = now + SubSec
                    => (last'.status = "ok" /\ last'.out.valid) ]_vars

\* C9: once a license is revoked, no step changes any field of its row.
C9_RevokedRowFrozen ==
    [][ \A l \in LicenseIds :
           licenses[l].revoked => (l \in DOMAIN licenses' /\ licenses'[l] = licenses[l]) ]_vars

\* the revocation metadata a validation reports for a row
RevocationMetadata(row) ==
    [revocation_reason |-> RevokedResult(row).revocation_reason,
     revoked_at        |-> RevokedResult(row).revoked_at]

\* C10: every validation of the token of a revoked license, whenever it is made
\* and however many came before, returns the revocation metadata of that license
\* (which no validation changes), so all of them return the same.
C10_SameRevocationMetadata ==
    [][ (/\ Served("validate_license_key")
         /\ RevokedRowsWithKey(last'.args.license_key) # {})
        => /\ licenses' = licenses
           /\ last'.status = "ok"
           /\ \E l \in RevokedRowsWithKey(last'.args.license_key) :
                 [revocation_reason |-> last'.out.revocation_reason,
                  revoked_at        |-> last'.out.revoked_at]
                    = RevocationMetadata(licenses[l]) ]_vars

\* C11: issue called with a zero or negative expiration_days is rejected: the
\* call does not succeed, and no License row and no audit entry is created.
C11_NonPositiveDaysRejected ==
    [][ (Served("generate_license") /\ last'.args.license_in.expiration_days <= 0)
        => /\ last'.status # "ok"
           /\ licenses' = licenses
           /\ audit' = audit ]_vars

\* C12: every License row has expires_at strictly later than issued_at.
C12_ExpiresAfterIssued ==
    \A l \in LicenseIds : licenses[l].expires_at > licenses[l].issued_at

\* C14: for a validly signed token whose rows are not revoked, the stored
\* expires_at alone decides: at every time up to it the validation returns
\* valid=true, also after the expiry embedded in the token.
C14_StoredExpiryDecides ==
    [][ (/\ Served("validate_license_key")
         /\ JwtSignatureOk(last'.args.license_key, SECRET_KEY)
         /\ RowsWithKey(last'.args.license_key) # {}
         /\ \A l \in RowsWithKey(last'.args.license_key) :
               ~licenses[l].revoked /\ now <= licenses[l].expires_at)
        => (last'.status = "ok" /\ last'.out.valid) ]_vars

\* C15: each tenant has at most one license that is non-revoked and unexpired.
C15_OneActiveLicense ==
    \A t \in TenantIds :
       Cardinality({l \in LicenseIds : /\ licenses[l].tenant_id = t
                                       /\ ~licenses[l].revoked
                                       /\ licenses[l].expires_at > now}) <= 1

\* the licenses of tenant t that are not revoked and expire after the clock
Unrevoked(t) == {l \in LicenseIds : licenses[l].tenant_id = t /\ licenses[l].revoked = FALSE}
Unexpired(t) == {l \in Unrevoked(t) : now < licenses[l].expires_at}

\* C17: a lookup by slug fails with TENANT_NOT_FOUND when no tenant has the
\* slug, else with NO_LICENSE when the tenant has no non-revoked unexpired
\* license, else returns valid=true for such a license of that tenant that none
\* of the others outlives; it never reports a revoked or expired license.
C17_SlugValidation ==
    last.op = "validate_license_by_tenant_slug" =>
       LET owners == {t \in TenantIds : tenants[t].slug = last.args.tenant_slug} IN
       IF owners = {} THEN last.status = "TENANT_NOT_FOUND"
       ELSE \E t \in owners :
               IF Unexpired(t) = {} THEN last.status = "NO_LICENSE"
               ELSE /\ last.status = "ok"
                    /\ last.out.valid /\ ~last.out.revoked
                    /\ last.out.license_id \in Unexpired(t)
                    /\ \A m \in Unexpired(t) :
                          licenses[m].expires_at <= licenses[last.out.license_id].expires_at
                    /\ last.out.expires_at
                          = Isoformat(licenses[last.out.license_id].expires_at)

\* a lookup answered with the longer-lived of two unexpired licenses, the
\* tenant also holding a license that is past its expiry
C17_Witness ==
    /\ last.op = "validate_license_by_tenant_slug"
    /\ last.status = "ok"
    /\ \E m \in Unexpired(last.out.tenant_id) :
          licenses[m].expires_at < licenses[last.out.license_id].expires_at
    /\ \E x \in Unrevoked(last.out.tenant_id) : licenses[x].expires_at <= now

\* C18: a lookup by slug, whatever its outcome, writes no audit entry and
\* leaves every License and Tenant row unchanged.
C18_SlugReadOnly ==
    [][ Served("validate_license_by_tenant_slug")
        => (audit' = audit /\ licenses' = licenses /\ tenants' = tenants) ]_vars

\* a lookup by slug has returned a valid license whose trail holds its ISSUED entry
C18_Witness ==
    /\ last.op = "validate_license_by_tenant_slug"
    /\ last.status = "ok"
    /\ Len(AuditOf(last.out.license_id)) = 1
    /\ AuditOf(last.out.license_id)[1].action = "ISSUED"

\* C19: no step changes or removes an audit entry: the trail only grows.
C19_AuditAppendOnly ==
    [][ /\ Len(audit') >= Len(audit)
        /\ SubSeq(audit', 1, Len(audit)) = audit ]_vars

\* the fields of the license the response for a revoked license has to carry
RevokedResponseFields ==
    {"valid", "revoked", "revocation_reason", "revoked_at", "license_tier",
     "company_name", "max_employees", "expires_at", "features"}

\* C20: the response of the validation endpoint for a revoked license carries
\* valid=false, revoked=true, the reason and time of the revocation, and the
\* license_tier, company_name, max_employees, expires_at and features.
C20_RevokedResponseComplete ==
    (/\ last.op = "validate_license_key"
     /\ last.status = "ok"
     /\ ~last.out.valid)
    => /\ RevokedResponseFields \subseteq DOMAIN validate_license(last)
       /\ \A f \in RevokedResponseFields \ {"revoked_at", "revoked"} :
             validate_license(last)[f] = last.out[f]

\* the entry a step appended, and the License rows it inserted or changed
Appended == audit'[Len(audit')]
AppendedOne == Len(audit') = Len(audit) + 1 /\ SubSeq(audit', 1, Len(audit)) = audit
ChangedLicenses ==
    {l \in DOMAIN licenses' : l \notin DOMAIN licenses \/ licenses'[l] # licenses[l]}

\* C13: the store never shows a License insert or update without its audit
\* entry, nor an ISSUED, REVOKED or EXTENDED entry without its License change:
\* every step that changes one changes the other with it, whatever requests
\* are in flight and wherever one of them crashes.
C13_AtomicCommit ==
    [][ /\ DOMAIN licenses \subseteq DOMAIN licenses'
        /\ (licenses' # licenses)
              => /\ AppendedOne
                 /\ Appended.action \in {"ISSUED", "REVOKED", "EXTENDED"}
                 /\ ChangedLicenses = {Appended.license_id}
        /\ (audit' # audit)
              => /\ AppendedOne
                 /\ Appended.license_id \in DOMAIN licenses'
                 /\ LET e == Appended
                        row == licenses'[e.license_id]
                    IN  CASE e.action = "ISSUED" -> e.license_id \notin DOMAIN licenses
                          [] e.action = "REVOKED" ->
                                /\ row.revoked
                                /\ row.revocation_reason = Some(e.details.reason)
                          [] e.action = "EXTENDED" ->
                                Isoformat(row.expires_at) = e.details.new_expiry
                          [] e.action = "VALIDATED" -> licenses' = licenses ]_vars

\* a revoke has sent its writes and not committed, an extend of the same
\* license waits behind it: the store shows neither change and neither entry
C13_Witness ==
    \E s \in SessionIds, o \in SessionIds :
       /\ sessions[s].pc = "flushed" /\ sessions[s].op = "revoke_license"
       /\ ~licenses[sessions[s].update[1].id].revoked
       /\ sessions[o].pc = "staged" /\ sessions[o].op = "extend_license"
       /\ RowLocked(o)
       /\ licenses[sessions[o].update[1].id].expires_at
             # sessions[o].update[1].cols.expires_at
       /\ \A i \in 1..Len(audit) : audit[i].action = "ISSUED"

\* the trail of a license in the order its entries were committed, newest first
NewestCommittedFirst(l) ==
    [i \in 1..Len(AuditOf(l)) |-> AuditOf(l)[Len(AuditOf(l)) + 1 - i]]

\* C16: the audit entries of a license, read back ordered by performed_at,
\* come in the order in which their operations committed.
C16_ReadBackInCommitOrder ==
    \A l \in LicenseIds : NewestCommittedFirst(l) \in get_license_audit_logs(l)

\* C22: validate_license_key decides in a fixed order: a token whose signature
\* or exp claim fails is INVALID_FORMAT; else a token held by no row is
\* NOT_FOUND; else a revoked row gives the revoked result, even past its stored
\* expiry; else a row with expires_at before now is EXPIRED; else the result is
\* valid, for the row that was read.
C22_CheckOrder ==
    last.op = "validate_license_key" =>
       LET k == last.args.license_key
           rows == {l \in LicenseIds : licenses[l].key_string = k}
       IN  IF ~JwtSignatureOk(k, SECRET_KEY) \/ JwtExpired(k, now)
           THEN last.status = "INVALID_FORMAT"
           ELSE IF rows = {}
           THEN last.status = "NOT_FOUND"
           ELSE \E l \in rows :
                   IF licenses[l].revoked
                   THEN /\ last.status = "ok"
                        /\ ~last.out.valid
                        /\ last.out.revoked
                   ELSE IF licenses[l].expires_at < now
                   THEN last.status = "EXPIRED"
                   ELSE /\ last.status = "ok"
                        /\ last.out.valid
                        /\ last.out.license_id = l

\* a token that still verifies, held by one row that is both revoked and past
\* its stored expiry, has just been answered with the revoked result
C22_Witness ==
    /\ last.op = "validate_license_key"
    /\ last.status = "ok"
    /\ ~last.out.valid
    /\ \E l \in LicenseIds :
          /\ {r \in LicenseIds : licenses[r].key_string = last.args.license_key} = {l}
          /\ licenses[l].revoked
          /\ licenses[l].expires_at < now

\* C23: revoke on a license that is already revoked succeeds again: it sets
\* revoked_at to the time of the call and the reason to the new reason, and it
\* appends one more REVOKED entry, so n revokes leave n REVOKED entries.
C23_RepeatRevoke ==
    [][ (/\ Served("revoke_license")
         /\ last'.args.license_id \in LicenseIds
         /\ licenses[last'.args.license_id].revoked)
        => LET l == last'.args.license_id IN
           /\ last'.status = "ok"
           /\ licenses'[l].revoked
           /\ licenses'[l].revoked_at = Some(now)
           /\ licenses'[l].revocation_reason = Some(last'.args.reason)
           /\ Len(audit') = Len(audit) + 1
           /\ SubSeq(audit', 1, Len(audit)) = audit
           /\ audit'[Len(audit')].action = "REVOKED"
           /\ audit'[Len(audit')].license_id = l
           /\ audit'[Len(audit')].details.reason = last'.args.reason ]_vars

\* a license revoked twice, later and for another reason: the row carries the
\* second time and reason and the trail has both REVOKED entries
C23_Witness ==
    \E l \in LicenseIds :
       LET revokes == SelectSeq(audit, LAMBDA e : e.license_id = l /\ e.action = "REVOKED")
       IN  /\ Len(revokes) = 2
           /\ revokes[1].details.reason # revokes[2].details.reason
           /\ revokes[1].performed_at < revokes[2].performed_at
           /\ licenses[l].revocation_reason = Some(revokes[2].details.reason)
           /\ licenses[l].revoked_at = Some(revokes[2].performed_at)

\* C26: distinct License rows always hold distinct token strings, two issues
\* for the same tenant with the same grants in the same clock second included.
C26_DistinctTokens ==
    \A l1 \in LicenseIds, l2 \in LicenseIds :
       l1 # l2 => licenses[l1].key_string # licenses[l2].key_string

\* C24: every failing call leaves the License rows, the Tenant rows and the
\* audit trail as they were and returns its error: issue for an unknown tenant,
\* revoke or extend of an unknown license, extend of a revoked license, and a
\* validation that ends in INVALID_FORMAT, NOT_FOUND or EXPIRED.
C24_FailuresWriteNothing ==
    [][ LET untouched == licenses' = licenses /\ tenants' = tenants /\ audit' = audit
            refused(message) == /\ last'.status = "ValueError"
                                /\ last'.out.message = message
                                /\ untouched
        IN  /\ (Served("generate_license")
                  /\ last'.args.license_in.tenant_id \notin DOMAIN tenants)
               => refused("Tenant not found")
            /\ (Served("revoke_license") /\ last'.args.license_id \notin DOMAIN licenses)
               => refused("License not found")
            /\ (Served("extend_license") /\ last'.args.license_id \notin DOMAIN licenses)
               => refused("License not found")
            /\ (Served("extend_license")
                  /\ last'.args.license_id \in DOMAIN licenses
                  /\ licenses[last'.args.license_id].revoked)
               => refused("Cannot extend a revoked license")
            /\ (Served("validate_license_key")
                  /\ last'.status \in {"INVALID_FORMAT", "NOT_FOUND", "EXPIRED"})
               => untouched ]_vars

\* an extend of a revoked license, with rows and entries stored, has just failed
C24_Witness ==
    /\ last.op = "extend_license"
    /\ last.status = "ValueError"
    /\ last.out.message = "Cannot extend a revoked license"
    /\ licenses[last.args.license_id].revoked
    /\ \A i \in 1..Len(audit) : audit[i].action # "EXTENDED"

\* the fields of a License row that are fixed at issue
IssuedFields == {"key_string", "tenant_id", "issued_at", "features",
                 "max_employees", "max_users"}
RevocationFields == {"revoked", "revoked_at", "revocation_reason"}
SameOn(fields, a, b) == \A f \in fields : a[f] = b[f]

\* C25: no step changes the token string, tenant, issued_at or entitlement
\* snapshot of a stored license; expires_at changes only in an extend of that
\* license, which changes nothing else, and the revocation fields change only
\* in a revoke of that license, which changes nothing else.
C25_Frame ==
    [][ \A l \in LicenseIds :
           /\ l \in DOMAIN licenses'
           /\ SameOn(IssuedFields, licenses[l], licenses'[l])
           /\ licenses'[l].expires_at # licenses[l].expires_at
              => /\ Served("extend_license") /\ last'.args.license_id = l
                 /\ SameOn(RevocationFields, licenses[l], licenses'[l])
           /\ ~SameOn(RevocationFields, licenses[l], licenses'[l])
              => /\ Served("revoke_license") /\ last'.args.license_id = l
                 /\ licenses'[l].expires_at = licenses[l].expires_at ]_vars

\* a license that was extended and then revoked, of a tenant whose entitlements
\* were changed since: it still stores the token and the snapshot of its issue
C25_Witness ==
    \E l \in LicenseIds :
       /\ \E i \in 1..Len(audit) : audit[i].license_id = l /\ audit[i].action = "EXTENDED"
       /\ licenses[l].revoked
       /\ tenants[licenses[l].tenant_id].features_enabled # licenses[l].features
       /\ licenses[l].key_string.claims.exp # Timegm(licenses[l].expires_at)
       /\ licenses[l].key_string.claims.features = licenses[l].features

\* the validations that pass their checks in this step, with the row each read
StartsValid(s) ==
    /\ sessions[s].pc = "idle"
    /\ sessions'[s].pc = "staged"
    /\ sessions'[s].op = "validate_license_key"
RowRead(s) == sessions'[s].entry[1].license_id

\* C21: with validations and revocations of a license in flight together, a
\* validation comes out valid only if the row it read was not revoked, and the
\* row it reads shows every revocation that has committed: none that starts
\* after the revocation committed comes out valid.
C21_ValidationSeesRevocation ==
    [][ \A s \in SessionIds :
           StartsValid(s) => /\ RowRead(s) \in DOMAIN licenses
                             /\ ~licenses[RowRead(s)].revoked ]_vars

\* a validation read the row and is on its way to a valid answer, and the
\* revocation of that row has committed since
C21_Witness ==
    \E s \in SessionIds :
       /\ InUse(s)
       /\ sessions[s].op = "validate_license_key"
       /\ licenses[sessions[s].entry[1].license_id].revoked
       /\ \E i \in 1..Len(audit) :
             /\ audit[i].action = "REVOKED"
             /\ audit[i].license_id = sessions[s].entry[1].license_id

\* the license has a committed REVOKED entry
RevocationCommitted(l) ==
    \E i \in 1..Len(audit) : audit[i].license_id = l /\ audit[i].action = "REVOKED"

\* C27: under every interleaving the trail of a license starts with its one
\* ISSUED entry, and once a REVOKED entry of the license has committed no
\* VALIDATED or EXTENDED entry of it commits and its expires_at stays as it is,
\* also for an extend that was in flight when the revocation committed.
C27_RevocationBarrier ==
    [][ \A l \in LicenseIds :
           /\ AuditOf(l) # <<>> => AuditOf(l)[1].action = "ISSUED"
           /\ Len(SelectSeq(AuditOf(l), LAMBDA e : e.action = "ISSUED")) <= 1
           /\ RevocationCommitted(l)
              => /\ \A j \in (Len(audit) + 1)..Len(audit') :
                       audit'[j].license_id = l
                          => audit'[j].action \notin {"VALIDATED", "EXTENDED"}
                 /\ l \in DOMAIN licenses'
                 /\ licenses'[l].expires_at = licenses[l].expires_at ]_vars

\* C28: in every state, concurrent extends of one license included, expires_at
\* is issued_at plus the days of the issue plus the additional_days of every
\* committed EXTENDED entry of the license: no committed extension is lost.
C28_NoLostExtension ==
    \A l \in LicenseIds :
       LET issued == SelectSeq(AuditOf(l), LAMBDA e : e.action = "ISSUED")
           days == IF issued = <<>> THEN 0 ELSE issued[1].details.expiry_days
       IN  licenses[l].expires_at
              = PlusDays(PlusDays(licenses[l].issued_at, days),
                         SumDays(Extensions(l), l))

\* what each validation answers, at time t, for license l of tenant tid
ValidByToken(l, t) ==
    /\ JwtDecodeOk(licenses[l].key_string, SECRET_KEY, t)
    /\ ~licenses[l].revoked
    /\ ~RowExpired(licenses[l], t)
ValidBySlug(tid, t) == ActiveLicenses(tid, t) # {}

\* C29: for a tenant with exactly one license L, a validation by L's token is
\* answered valid exactly when a validation by the tenant's slug at the same
\* instant is, the instant now = L.expires_at included.
C29_PathsAgree ==
    \A tid \in TenantIds : \A l \in LicenseIds :
       LicensesOfTenant(tid) = {l} =>
          /\ (last.op = "validate_license_key"
                /\ last.args.license_key = licenses[l].key_string)
             => (Succeeded(last) <=> ValidBySlug(tid, now))
          /\ (last.op = "validate_license_by_tenant_slug"
                /\ last.args.tenant_slug = tenants[tid].slug)
             => (last.status = "ok" <=> ValidByToken(l, now))

\* a create_tenant request is between its two commits
Provisioning == \E s \in SessionIds : InUse(s) /\ sessions[s].op = "create_tenant"

\* C30: tenant creation is all or nothing: once no create_tenant request is
\* in flight, after a crash between its two commits too, every tenant that
\* exists has exactly one license, with exactly one ISSUED entry.
C30_TenantWithItsLicense ==
    ~Provisioning =>
       \A tid \in TenantIds :
          \E l \in LicenseIds :
             /\ LicensesOfTenant(tid) = {l}
             /\ Len(SelectSeq(AuditOf(l), LAMBDA e : e.action = "ISSUED")) = 1

====
